---- MODULE Spec2Model ----
(***************************************************************************)
(* The mutable cursor of unitree (src/src/cursor_mut.rs): a zipper over a  *)
(* reference-counted, copy-on-write B-tree-like tree.                      *)
(*                                                                         *)
(* Child arrays live in a heap of reference-counted cells (RC<NVec<Node>>);*)
(* a Node is a value that is either a leaf or an internal node pointing at *)
(* one cell.  The cursor is cur_node plus the stack of ascent steps.       *)
(***************************************************************************)
EXTENDS Integers, Sequences, FiniteSets, TLC

VARIABLES heap, cur_node, steps, phase, root, other, otherSnap, input,
          built, chain, nops, last, path

vars == <<heap, cur_node, steps, phase, root, other, otherSnap, input,
          built, chain, nops, last, path>>

---------------------------------------------------------------------------
(* Shape constants of the tree and capacity of the step stack.             *)
MAX_CHILDREN == 4
MIN_CHILDREN == 2
CURSOR_MAX_HT == 8

(* Bounds of the model.                                                    *)
MaxChain == 14
MaxIter == 17
MaxOps == 3
MaxDeepOps == 9

---------------------------------------------------------------------------
(* Sequence helpers.                                                       *)
Take(s, n) == SubSeq(s, 1, n)
Drop(s, n) == SubSeq(s, n + 1, Len(s))
InsertAt(s, i, x) == Take(s, i) \o <<x>> \o Drop(s, i)
RemoveAt(s, i) == Take(s, i) \o Drop(s, i + 1)
MinOf(S) == CHOOSE x \in S : \A y \in S : x <= y
MaxOf(S) == CHOOSE x \in S : \A y \in S : x >= y

---------------------------------------------------------------------------
(* Leaf / Info / PathInfo instances: the count/length aggregate on usize.  *)
compute_info(v) == 1 + (v % 2)
(* usize arithmetic: `+` and `-` wrap modulo UsizeMax + 1 in a build        *)
(* without overflow checks and panic on overflow in a build with them.     *)
UsizeMax == 63
add_overflows(a, b) == a + b > UsizeMax
sub_overflows(a, b) == a < b
gather(a, b) == (a + b) % (UsizeMax + 1)
extend(c, x) == (c + x) % (UsizeMax + 1)
extend_inv(c, x) == (c - x + UsizeMax + 1) % (UsizeMax + 1)
identity == 0

(* The unit instance: every method returns ().                             *)
unit_extend(c, x) == c
unit_extend_inv(c, x) == c

---------------------------------------------------------------------------
(* ArrayVec: a bounded array.  insert returns the element pushed out (the  *)
(* new element itself when the index is out of range or equals the         *)
(* capacity); remove returns the removed element or nothing; push returns  *)
(* the element when the array is full.  Indices are 0-based as in the      *)
(* source; the sequences are 1-based.                                      *)
None == [kind |-> "none", val |-> 0, info |-> 0, height |-> 0, nodes |-> 0]

AvInsert(arr, cap, idx, x) ==
    IF idx > Len(arr) \/ idx = cap
    THEN [arr |-> arr, out |-> x]
    ELSE IF Len(arr) = cap
         THEN [arr |-> InsertAt(Take(arr, Len(arr) - 1), idx, x),
               out |-> arr[Len(arr)]]
         ELSE [arr |-> InsertAt(arr, idx, x), out |-> None]

AvRemove(arr, idx) ==
    IF idx < Len(arr)
    THEN [arr |-> RemoveAt(arr, idx), out |-> arr[idx + 1]]
    ELSE [arr |-> arr, out |-> None]

AvPush(arr, cap, x) ==
    IF Len(arr) < cap
    THEN [arr |-> Append(arr, x), out |-> None]
    ELSE [arr |-> arr, out |-> x]

---------------------------------------------------------------------------
(* Node: leaf or internal; an internal node caches its height and Info and *)
(* points at the cell holding its children.                                *)
RECURSIVE SumInfo(_)
SumInfo(arr) ==
    IF Len(arr) = 0 THEN 0
    ELSE IF Len(arr) = 1 THEN arr[1].info
    ELSE gather(SumInfo(Take(arr, Len(arr) - 1)), arr[Len(arr)].info)

from_leaf(v) ==
    [kind |-> "leaf", val |-> v, info |-> compute_info(v), height |-> 0,
     nodes |-> 0]

(* Node::from_nodes on the cell at address a of heap h.                    *)
from_nodes(h, a) ==
    [kind |-> "int", val |-> 0, info |-> SumInfo(h[a].arr),
     height |-> h[a].arr[1].height + 1, nodes |-> a]

(* RC::new(arr): a fresh cell with one reference.                          *)
rc_new(h, arr) ==
    [heap |-> Append(h, [rc |-> 1, arr |-> arr]), addr |-> Len(h) + 1]

(* Node::concat(a, b) for two nodes of equal height: a two-child node.     *)
concat(h, a, b) ==
    LET c == rc_new(h, <<a, b>>)
    IN  [heap |-> c.heap, node |-> from_nodes(c.heap, c.addr)]

children(h, node) == IF node.kind = "int" THEN h[node.nodes].arr ELSE <<>>

(* Cloning the nodes of an array takes one more reference to the cell of   *)
(* every internal node in it.                                              *)
Refs(arr, b) ==
    Cardinality({i \in DOMAIN arr : arr[i].kind = "int" /\ arr[i].nodes = b})

(* make_mut: exclusive access to the cell at a; the array is copied first  *)
(* iff another reference to the cell exists.                               *)
make_mut_noclone(h, a) == [heap |-> h, addr |-> a]

make_mut(h, a) ==
    IF h[a].rc > 1
    THEN LET arr == h[a].arr
             h1 == [b \in DOMAIN h |->
                      [rc  |-> IF b = a THEN h[b].rc - 1
                               ELSE h[b].rc + Refs(arr, b),
                       arr |-> h[b].arr]]
         IN  rc_new(h1, arr)
    ELSE [heap |-> h, addr |-> a]

---------------------------------------------------------------------------
(* Dropping a node releases one reference to its cell; the last reference  *)
(* frees the cell and drops its children.                                  *)
RECURSIVE drop(_, _)
RECURSIVE drop_all(_, _)
drop(h, node) ==
    IF node.kind # "int" THEN h
    ELSE LET a == node.nodes
         IN  IF h[a].rc > 1
             THEN [h EXCEPT ![a].rc = h[a].rc - 1]
             ELSE drop_all([h EXCEPT ![a].rc = 0], h[a].arr)
drop_all(h, arr) ==
    IF Len(arr) = 0 THEN h ELSE drop_all(drop(h, arr[1]), Drop(arr, 1))

---------------------------------------------------------------------------
(* The traversal primitive of Node used for descent.  A predicate is       *)
(* [kind, k]: "idx" selects forward index k (descend), "ridx" selects      *)
(* reverse index k (descend_last), "gath" selects the first child visited  *)
(* at which the Info gathered over the visited children reaches k          *)
(* (descend_by).  The result carries the path-info at the selected child.  *)
Pred(p, extra, info, i, j) ==
    CASE p.kind = "idx"  -> i = p.k
      [] p.kind = "ridx" -> j = p.k
      [] p.kind = "gath" -> info >= p.k

TraverseHits(h, node, first, p, reversed) ==
    LET arr == children(h, node)
        n   == Len(arr)
    IN  {i \in 0 .. n - 1 :
            Pred(p, extend(first, SumInfo(Take(arr, i))),
                 IF reversed THEN SumInfo(Drop(arr, i))
                             ELSE SumInfo(Take(arr, i + 1)),
                 i, n - 1 - i)}

gather_traverse(h, node, first, p) ==
    LET hits == TraverseHits(h, node, first, p, FALSE)
    IN  IF hits = {} THEN [ok |-> FALSE, index |-> 0, extra |-> first]
        ELSE LET i == MinOf(hits)
             IN  [ok |-> TRUE, index |-> i,
                  extra |-> extend(first, SumInfo(Take(children(h, node), i)))]

gather_traverse_rev(h, node, first, p) ==
    LET hits == TraverseHits(h, node, first, p, TRUE)
    IN  IF hits = {} THEN [ok |-> FALSE, index |-> 0, extra |-> first]
        ELSE LET i == MaxOf(hits)
             IN  [ok |-> TRUE, index |-> i,
                  extra |-> extend(first, SumInfo(Take(children(h, node), i)))]

---------------------------------------------------------------------------
(* The cursor.  A machine m is [heap, cur_node, steps, panic, dbg, splits, *)
(* ret]: panic is set by a failed assert!/unwrap, dbg by a failed          *)
(* debug_assert!, splits counts the splits of the running operation, ret   *)
(* tells whether the operation returned Some.                              *)
Machine(h, c, s) ==
    [heap |-> h, cur_node |-> c, steps |-> s, panic |-> FALSE, dbg |-> FALSE,
     splits |-> 0, ret |-> FALSE]

new == Machine(<<>>, None, <<>>)

from_node(h, node) == Machine(h, node, <<>>)

extra(m) ==
    IF Len(m.steps) > 0 THEN m.steps[Len(m.steps)].extra ELSE identity

(* Variant: the selected child is copied out of the array, not removed.    *)
descend_raw_keeps(m, nodes, idx, ex) ==
    LET mm   == make_mut(m.heap, nodes)
        arr  == mm.heap[mm.addr].arr
        push == AvPush(m.steps, CURSOR_MAX_HT,
                       [nodes |-> mm.addr, idx |-> idx, extra |-> ex])
    IN  [m EXCEPT !.heap = mm.heap,
                  !.cur_node = IF idx < Len(arr) THEN arr[idx + 1] ELSE None,
                  !.steps = push.arr,
                  !.dbg = m.dbg \/ m.cur_node # None,
                  !.panic = m.panic \/ idx >= Len(arr) \/ push.out # None]

(* Variant: a step that does not fit the stack is dropped silently.        *)
descend_raw_silent(m, nodes, idx, ex) ==
    LET mm   == make_mut(m.heap, nodes)
        r    == AvRemove(mm.heap[mm.addr].arr, idx)
        h1   == [mm.heap EXCEPT ![mm.addr].arr = r.arr]
        push == AvPush(m.steps, CURSOR_MAX_HT,
                       [nodes |-> mm.addr, idx |-> idx, extra |-> ex])
    IN  [m EXCEPT !.heap = h1,
                  !.cur_node = r.out,
                  !.steps = push.arr,
                  !.dbg = m.dbg \/ m.cur_node # None,
                  !.panic = m.panic \/ r.out = None]

descend_raw(m, nodes, idx, ex) ==
    LET mm   == make_mut(m.heap, nodes)
        r    == AvRemove(mm.heap[mm.addr].arr, idx)
        h1   == [mm.heap EXCEPT ![mm.addr].arr = r.arr]
        push == AvPush(m.steps, CURSOR_MAX_HT,
                       [nodes |-> mm.addr, idx |-> idx, extra |-> ex])
    IN  [m EXCEPT !.heap = h1,
                  !.cur_node = r.out,
                  !.steps = push.arr,
                  !.dbg = m.dbg \/ m.cur_node # None,
                  !.panic = m.panic \/ r.out = None \/ push.out # None]

(* Variant: the held node is not put back when no child is selected.      *)
descend_by_ext_no_restore(m, p, reversed) ==
    IF m.cur_node = None THEN [m EXCEPT !.ret = FALSE]
    ELSE LET cur == m.cur_node
             m0  == [m EXCEPT !.cur_node = None]
             res == IF reversed
                    THEN gather_traverse_rev(m.heap, cur, extra(m0), p)
                    ELSE gather_traverse(m.heap, cur, extra(m0), p)
         IN  IF res.ok
             THEN [descend_raw(m0, cur.nodes, res.index, res.extra)
                     EXCEPT !.ret = TRUE]
             ELSE [m0 EXCEPT !.ret = FALSE]

descend_by_ext(m, p, reversed) ==
    IF m.cur_node = None THEN [m EXCEPT !.ret = FALSE]
    ELSE LET cur == m.cur_node
             m0  == [m EXCEPT !.cur_node = None]
             res == IF reversed
                    THEN gather_traverse_rev(m.heap, cur, extra(m0), p)
                    ELSE gather_traverse(m.heap, cur, extra(m0), p)
         IN  IF res.ok
             THEN [descend_raw(m0, cur.nodes, res.index, res.extra)
                     EXCEPT !.ret = TRUE]
             ELSE [m0 EXCEPT !.cur_node = cur, !.ret = FALSE]

descend(m, idx) == descend_by_ext(m, [kind |-> "idx", k |-> idx], FALSE)

descend_last(m, idx) == descend_by_ext(m, [kind |-> "ridx", k |-> idx], TRUE)

descend_by(m, k, reversed) ==
    descend_by_ext(m, [kind |-> "gath", k |-> k], reversed)

(* Variant: the held node is put back at the end of the array.             *)
ascend_at_end(m) ==
    IF m.cur_node = None THEN [m EXCEPT !.ret = FALSE]
    ELSE IF Len(m.steps) = 0 THEN [m EXCEPT !.ret = FALSE]
    ELSE LET cstep == m.steps[Len(m.steps)]
             mm    == make_mut(m.heap, cstep.nodes)
             ins   == AvInsert(mm.heap[mm.addr].arr, MAX_CHILDREN,
                               Len(mm.heap[mm.addr].arr), m.cur_node)
             h1    == drop([mm.heap EXCEPT ![mm.addr].arr = ins.arr], ins.out)
         IN  [m EXCEPT !.heap = h1,
                       !.cur_node = from_nodes(h1, mm.addr),
                       !.steps = Take(m.steps, Len(m.steps) - 1),
                       !.ret = TRUE]

ascend(m) ==
    IF m.cur_node = None THEN [m EXCEPT !.ret = FALSE]
    ELSE IF Len(m.steps) = 0 THEN [m EXCEPT !.ret = FALSE]
    ELSE LET cstep == m.steps[Len(m.steps)]
             mm    == make_mut(m.heap, cstep.nodes)
             ins   == AvInsert(mm.heap[mm.addr].arr, MAX_CHILDREN, cstep.idx,
                               m.cur_node)
             h1    == drop([mm.heap EXCEPT ![mm.addr].arr = ins.arr], ins.out)
         IN  [m EXCEPT !.heap = h1,
                       !.cur_node = from_nodes(h1, mm.addr),
                       !.steps = Take(m.steps, Len(m.steps) - 1),
                       !.ret = TRUE]

(* Variant: a single ascent.                                               *)
reset_once(m) == ascend(m)

RECURSIVE reset(_)
reset(m) == LET a == ascend(m) IN IF a.ret THEN reset(a) ELSE a

into_root(m) == reset(m)

---------------------------------------------------------------------------
(* Insertion.  insert_maybe_split works on the cell at address a (already  *)
(* made unique by the caller) and returns the split-off sibling, if any.   *)
(* Variant: only the overflowing element is split off.                    *)
insert_maybe_split_lopsided(h, a, idx, newnode) ==
    LET nodes == h[a].arr
    IN  IF Len(nodes) < MAX_CHILDREN
        THEN LET res == AvInsert(nodes, MAX_CHILDREN, idx, newnode)
             IN  [heap |-> [h EXCEPT ![a].arr = res.arr],
                  split |-> None,
                  dbg |-> res.out # None,
                  panic |-> FALSE]
        ELSE LET ins   == AvInsert(nodes, MAX_CHILDREN, idx, newnode)
                 after == AvPush(Drop(ins.arr, MAX_CHILDREN), MAX_CHILDREN,
                                 ins.out)
                 h1    == [h EXCEPT ![a].arr = Take(ins.arr, MAX_CHILDREN)]
                 c     == rc_new(h1, after.arr)
             IN  [heap |-> c.heap,
                  split |-> from_nodes(c.heap, c.addr),
                  dbg |-> after.out # None,
                  panic |-> ins.out = None]

(* Variant: the sibling's Info is computed before the pushed-out element   *)
(* is appended to it.                                                      *)
insert_maybe_split_stale_info(h, a, idx, newnode) ==
    LET nodes == h[a].arr
    IN  IF Len(nodes) < MAX_CHILDREN
        THEN LET res == AvInsert(nodes, MAX_CHILDREN, idx, newnode)
             IN  [heap |-> [h EXCEPT ![a].arr = res.arr],
                  split |-> None,
                  dbg |-> res.out # None,
                  panic |-> FALSE]
        ELSE LET ins   == AvInsert(nodes, MAX_CHILDREN, idx, newnode)
                 early == Drop(ins.arr, MIN_CHILDREN + 1)
                 after == AvPush(early, MAX_CHILDREN, ins.out)
                 h1    == [h EXCEPT ![a].arr = Take(ins.arr, MIN_CHILDREN + 1)]
                 c0    == rc_new(h1, early)
                 c     == rc_new(h1, after.arr)
             IN  [heap |-> c.heap,
                  split |-> from_nodes(c0.heap, c0.addr),
                  dbg |-> after.out # None,
                  panic |-> ins.out = None]

insert_maybe_split(h, a, idx, newnode) ==
    LET nodes == h[a].arr
    IN  IF Len(nodes) < MAX_CHILDREN
        THEN LET res == AvInsert(nodes, MAX_CHILDREN, idx, newnode)
             IN  [heap |-> [h EXCEPT ![a].arr = res.arr],
                  split |-> None,
                  dbg |-> res.out # None,
                  panic |-> FALSE]
        ELSE LET ins   == AvInsert(nodes, MAX_CHILDREN, idx, newnode)
                 after == AvPush(Drop(ins.arr, MIN_CHILDREN + 1), MAX_CHILDREN,
                                 ins.out)
                 h1    == [h EXCEPT ![a].arr = Take(ins.arr, MIN_CHILDREN + 1)]
                 c     == rc_new(h1, after.arr)
             IN  [heap |-> c.heap,
                  split |-> from_nodes(c.heap, c.addr),
                  dbg |-> after.out # None,
                  panic |-> ins.out = None]

RECURSIVE insert_raw(_, _, _)

(* Variant: after a plain insertion the cursor keeps the slot of the old   *)
(* held node instead of moving to the new node.                            *)
insert_raw_keeps_old(m, newnode, after) ==
    IF m.panic THEN m
    ELSE IF m.cur_node = None THEN [m EXCEPT !.cur_node = newnode]
    ELSE IF m.cur_node.height # newnode.height THEN [m EXCEPT !.panic = TRUE]
    ELSE IF Len(m.steps) = 0
    THEN LET c == IF after THEN concat(m.heap, m.cur_node, newnode)
                           ELSE concat(m.heap, newnode, m.cur_node)
         IN  [m EXCEPT !.heap = c.heap, !.cur_node = c.node]
    ELSE LET cstep  == m.steps[Len(m.steps)]
             popped == Take(m.steps, Len(m.steps) - 1)
             mm     == make_mut(m.heap, cstep.nodes)
             res    == AvInsert(mm.heap[mm.addr].arr, MAX_CHILDREN, cstep.idx,
                                m.cur_node)
             h1     == [mm.heap EXCEPT ![mm.addr].arr = res.arr]
             newidx == IF after THEN cstep.idx + 1 ELSE cstep.idx
             ms     == insert_maybe_split(h1, mm.addr, newidx, newnode)
             dbg1   == m.dbg \/ res.out # None \/ ms.dbg
         IN  IF ms.panic THEN [m EXCEPT !.panic = TRUE]
             ELSE IF ms.split # None
             THEN LET h2 == drop(ms.heap, res.out)
                  IN  insert_raw([m EXCEPT !.heap = h2,
                                           !.cur_node = from_nodes(h2, mm.addr),
                                           !.steps = popped,
                                           !.dbg = dbg1,
                                           !.splits = m.splits + 1],
                                 ms.split, TRUE)
             ELSE LET rem == AvRemove(ms.heap[mm.addr].arr, cstep.idx)
                      h2  == drop([ms.heap EXCEPT ![mm.addr].arr = rem.arr],
                                  res.out)
                  IN  [m EXCEPT !.heap = h2,
                                !.cur_node = rem.out,
                                !.steps = Append(popped,
                                    [cstep EXCEPT !.nodes = mm.addr]),
                                !.dbg = dbg1 \/ rem.out = None]

insert_raw(m, newnode, after) ==
    IF m.panic THEN m
    ELSE IF m.cur_node = None THEN [m EXCEPT !.cur_node = newnode]
    ELSE IF m.cur_node.height # newnode.height THEN [m EXCEPT !.panic = TRUE]
    ELSE IF Len(m.steps) = 0
    THEN LET c == IF after THEN concat(m.heap, m.cur_node, newnode)
                           ELSE concat(m.heap, newnode, m.cur_node)
         IN  [m EXCEPT !.heap = c.heap, !.cur_node = c.node]
    ELSE LET cstep  == m.steps[Len(m.steps)]
             popped == Take(m.steps, Len(m.steps) - 1)
             mm     == make_mut(m.heap, cstep.nodes)
             res    == AvInsert(mm.heap[mm.addr].arr, MAX_CHILDREN, cstep.idx,
                                m.cur_node)
             h1     == [mm.heap EXCEPT ![mm.addr].arr = res.arr]
             newidx == IF after THEN cstep.idx + 1 ELSE cstep.idx
             ms     == insert_maybe_split(h1, mm.addr, newidx, newnode)
             dbg1   == m.dbg \/ res.out # None \/ ms.dbg
         IN  IF ms.panic THEN [m EXCEPT !.panic = TRUE]
             ELSE IF ms.split # None
             THEN LET h2 == drop(ms.heap, res.out)
                  IN  insert_raw([m EXCEPT !.heap = h2,
                                           !.cur_node = from_nodes(h2, mm.addr),
                                           !.steps = popped,
                                           !.dbg = dbg1,
                                           !.splits = m.splits + 1],
                                 ms.split, TRUE)
             ELSE LET rem == AvRemove(ms.heap[mm.addr].arr, newidx)
                      h2  == drop([ms.heap EXCEPT ![mm.addr].arr = rem.arr],
                                  res.out)
                  IN  [m EXCEPT !.heap = h2,
                                !.cur_node = rem.out,
                                !.steps = Append(popped,
                                    [cstep EXCEPT !.nodes = mm.addr,
                                                  !.idx = newidx]),
                                !.dbg = dbg1 \/ rem.out = None]

(* while let Some(_) = self.descend(0) {}  /  self.descend_last(0)         *)
RECURSIVE descend_all(_, _)
descend_all(m, reversed) ==
    LET d == IF reversed THEN descend_last(m, 0) ELSE descend(m, 0)
    IN  IF d.panic \/ ~d.ret THEN d ELSE descend_all(d, reversed)

insert(m, leaf) == insert_raw(descend_all(m, FALSE), from_leaf(leaf), FALSE)

(* Variant: the new leaf goes before the held node.                       *)
insert_after_before(m, leaf) ==
    insert_raw(descend_all(m, TRUE), from_leaf(leaf), FALSE)

insert_after(m, leaf) == insert_raw(descend_all(m, TRUE), from_leaf(leaf), TRUE)

---------------------------------------------------------------------------
(* Bulk construction: FromIterator::from_iter.                             *)
RECURSIVE descend_to_leaf_level(_)

(* Variant: the loop runs down to the leaves (h > 0).                      *)
descend_to_leaves(m) ==
    IF ~m.panic /\ m.cur_node # None /\ m.cur_node.height > 0
    THEN descend_to_leaf_level(descend_last(m, 0))
    ELSE m

descend_to_leaf_level(m) ==
    IF ~m.panic /\ m.cur_node # None /\ m.cur_node.height > 1
    THEN descend_to_leaf_level(descend_last(m, 0))
    ELSE m

LeafNodes(leaves) == [i \in 1 .. Len(leaves) |-> from_leaf(leaves[i])]

RECURSIVE from_iter_loop(_, _)

(* Variant: each packed node is inserted before the current position.     *)
from_iter_loop_before(m, iter) ==
    LET curs  == descend_to_leaf_level(m)
        n     == IF Len(iter) < MAX_CHILDREN THEN Len(iter) ELSE MAX_CHILDREN
        nodes == LeafNodes(Take(iter, n))
    IN  IF curs.panic THEN curs
        ELSE IF Len(nodes) > 0
        THEN LET c == rc_new(curs.heap, nodes)
             IN  from_iter_loop(
                     insert_raw([curs EXCEPT !.heap = c.heap],
                                from_nodes(c.heap, c.addr), FALSE),
                     Drop(iter, n))
        ELSE curs

from_iter_loop(m, iter) ==
    LET curs  == descend_to_leaf_level(m)
        n     == IF Len(iter) < MAX_CHILDREN THEN Len(iter) ELSE MAX_CHILDREN
        nodes == LeafNodes(Take(iter, n))
    IN  IF curs.panic THEN curs
        ELSE IF Len(nodes) > 0
        THEN LET c == rc_new(curs.heap, nodes)
             IN  from_iter_loop(
                     insert_raw([curs EXCEPT !.heap = c.heap],
                                from_nodes(c.heap, c.addr), TRUE),
                     Drop(iter, n))
        ELSE curs

from_iter(iter) == from_iter_loop(new, iter)

---------------------------------------------------------------------------
(* Views of a tree and of the cursor used to state the properties.         *)
RECURSIVE LeafSeq(_, _)
RECURSIVE LeafSeqArr(_, _)
LeafSeq(h, node) ==
    CASE node.kind = "leaf" -> <<node.val>>
      [] node.kind = "int"  -> LeafSeqArr(h, h[node.nodes].arr)
      [] OTHER              -> <<>>
LeafSeqArr(h, arr) ==
    IF Len(arr) = 0 THEN <<>>
    ELSE LeafSeq(h, arr[1]) \o LeafSeqArr(h, Drop(arr, 1))

(* Leaves to the left / right of the held node, over all ascent steps.     *)
RECURSIVE LeftOf(_, _)
LeftOf(h, st) ==
    IF Len(st) = 0 THEN <<>>
    ELSE LET top == st[Len(st)]
         IN  LeftOf(h, Take(st, Len(st) - 1))
             \o LeafSeqArr(h, Take(h[top.nodes].arr, top.idx))

RECURSIVE RightOf(_, _)
RightOf(h, st) ==
    IF Len(st) = 0 THEN <<>>
    ELSE LET top == st[Len(st)]
         IN  LeafSeqArr(h, Drop(h[top.nodes].arr, top.idx))
             \o RightOf(h, Take(st, Len(st) - 1))

Whole(h, cur, st) == LeftOf(h, st) \o LeafSeq(h, cur) \o RightOf(h, st)

RECURSIVE SumLeafInfo(_)
SumLeafInfo(ls) ==
    IF Len(ls) = 0 THEN 0
    ELSE gather(compute_info(ls[1]), SumLeafInfo(Drop(ls, 1)))

(* The tree below a node as a value: shape, cached fields and leaves.      *)
RECURSIVE Deep(_, _)
Deep(h, node) ==
    [kind |-> node.kind, val |-> node.val, info |-> node.info,
     height |-> node.height,
     kids |-> IF node.kind = "int"
              THEN [i \in DOMAIN h[node.nodes].arr |->
                      Deep(h, h[node.nodes].arr[i])]
              ELSE <<>>]

RECURSIVE ShapeOK(_, _, _)
ShapeOK(h, node, isRoot) ==
    IF node.kind # "int" THEN node.height = 0
    ELSE LET arr == h[node.nodes].arr
         IN  /\ Len(arr) <= MAX_CHILDREN
             /\ isRoot \/ Len(arr) >= MIN_CHILDREN
             /\ \A i \in DOMAIN arr :
                   /\ node.height = arr[i].height + 1
                   /\ ShapeOK(h, arr[i], FALSE)

RECURSIVE InfoOK(_, _)
InfoOK(h, node) ==
    IF node.kind # "int" THEN node.info = compute_info(node.val)
    ELSE LET arr == h[node.nodes].arr
         IN  /\ node.info = SumInfo(arr)
             /\ \A i \in DOMAIN arr : InfoOK(h, arr[i])

Iota(n) == [i \in 1 .. n |-> i]

---------------------------------------------------------------------------
(* The state machine: one cursor, the tree it yields, and at most one      *)
(* other reference to a tree it was created from.                          *)
Cursor == [heap |-> heap, cur_node |-> cur_node, steps |-> steps,
           panic |-> FALSE, dbg |-> FALSE, splits |-> 0, ret |-> FALSE]

PathIdle == [inst |-> "usize", checked |-> FALSE, c0 |-> 0, x |-> 0,
             val |-> 0, st |-> "idle"]

NextLeaf == Len(Whole(heap, cur_node, steps)) + 1

Init ==
    /\ heap = new.heap
    /\ cur_node = new.cur_node
    /\ steps = new.steps
    /\ phase = "cursor"
    /\ root = None
    /\ other = None
    /\ otherSnap = None
    /\ input = <<>>
    /\ built = "new"
    /\ chain = TRUE
    /\ nops = 0
    /\ path = PathIdle
    /\ last = [op |-> "new", ok |-> TRUE, splits |-> 0, leaf |-> 0,
               depth |-> 0, dbg |-> FALSE]

(* The cursor after an operation returned m (or panicked inside it).       *)
Becomes(m, op, leaf) ==
    /\ heap' = m.heap
    /\ cur_node' = m.cur_node
    /\ steps' = m.steps
    /\ phase' = IF m.panic THEN "panic" ELSE "cursor"
    /\ last' = [op |-> op, ok |-> m.ret, splits |-> m.splits, leaf |-> leaf,
                depth |-> Len(steps), dbg |-> m.dbg]
    /\ UNCHANGED <<root, other, otherSnap, path>>

Budgeted ==
    /\ phase = "cursor"
    /\ nops < MaxOps
    /\ nops' = nops + 1
    /\ chain' = FALSE
    /\ UNCHANGED <<input, built>>

FromIter(n) ==
    /\ phase = "cursor" /\ built = "new" /\ nops = 0 /\ input = <<>>
    /\ cur_node = None
    /\ Becomes(from_iter(Iota(n)), "from_iter", 0)
    /\ built' = "from_iter"
    /\ chain' = FALSE
    /\ input' = Iota(n)
    /\ UNCHANGED nops

Insert ==
    /\ Budgeted
    /\ Becomes(insert(Cursor, NextLeaf), "insert", NextLeaf)

InsertAfter ==
    /\ phase = "cursor"
    /\ IF chain /\ Len(input) < MaxChain
       THEN /\ input' = Append(input, NextLeaf)
            /\ UNCHANGED <<chain, nops, built>>
       ELSE Budgeted
    /\ Becomes(insert_after(Cursor, NextLeaf), "insert_after", NextLeaf)

Descend(idx) ==
    /\ Budgeted
    /\ Becomes(descend(Cursor, idx), "descend", 0)

DescendLast(idx) ==
    /\ Budgeted
    /\ Becomes(descend_last(Cursor, idx), "descend_last", 0)

DescendBy(k, reversed) ==
    /\ Budgeted
    /\ Becomes(descend_by(Cursor, k, reversed), "descend_by", 0)

Ascend ==
    /\ Budgeted
    /\ Becomes(ascend(Cursor), "ascend", 0)

Reset ==
    /\ Budgeted
    /\ Becomes(reset(Cursor), "reset", 0)

IntoRoot ==
    /\ phase = "cursor"
    /\ LET m == into_root(Cursor)
       IN  /\ heap' = m.heap
           /\ root' = m.cur_node
           /\ cur_node' = None
           /\ steps' = <<>>
    /\ phase' = "done"
    /\ last' = [op |-> "into_root", ok |-> cur_node # None, splits |-> 0,
                leaf |-> 0, depth |-> Len(steps), dbg |-> FALSE]
    /\ UNCHANGED <<other, otherSnap, input, built, chain, nops, path>>

(* let t2 = t.clone(); CursorMutT::from_node(t): the tree just built is    *)
(* kept by a second reference while a new cursor works on it.              *)
Share ==
    /\ phase = "done" /\ root # None /\ other = None /\ nops = 0
    /\ LET h == IF root.kind = "int"
                THEN [heap EXCEPT ![root.nodes].rc = heap[root.nodes].rc + 1]
                ELSE heap
           m == from_node(h, root)
       IN  /\ heap' = m.heap
           /\ cur_node' = m.cur_node
           /\ steps' = m.steps
           /\ otherSnap' = Deep(h, root)
    /\ other' = root
    /\ root' = None
    /\ phase' = "cursor"
    /\ built' = "from_node"
    /\ chain' = FALSE
    /\ last' = [op |-> "from_node", ok |-> TRUE, splits |-> 0, leaf |-> 0,
                depth |-> 0, dbg |-> FALSE]
    /\ UNCHANGED <<input, nops, path>>

Next ==
    \/ \E n \in 0 .. MaxIter : FromIter(n)
    \/ Insert
    \/ InsertAfter
    \/ \E idx \in 0 .. MAX_CHILDREN : Descend(idx)
    \/ \E idx \in 0 .. MAX_CHILDREN : DescendLast(idx)
    \/ \E k \in {1, 3, 6} : \E reversed \in BOOLEAN : DescendBy(k, reversed)
    \/ Ascend
    \/ Reset
    \/ IntoRoot
    \/ Share

Spec == Init /\ [][Next]_vars

---------------------------------------------------------------------------
(* Repeated single insertion: for l in leaves { cursor.insert_after(l) };  *)
(* a panic ends the loop.                                                  *)
RECURSIVE insert_after_all(_, _)
insert_after_all(m, leaves) ==
    IF Len(leaves) = 0 THEN m
    ELSE LET n == insert_after(m, leaves[1])
         IN  IF n.panic THEN n ELSE insert_after_all(n, Drop(leaves, 1))

---------------------------------------------------------------------------
(* C1: from the empty cursor, insert_after(l_0), ..., insert_after(l_N-1)  *)
(* and then into_root() yields a tree whose in-order leaf sequence is      *)
(* exactly l_0..l_N-1; for N = 0 into_root returns nothing.                *)
C1_RoundTrip ==
    (phase = "done" /\ built = "new" /\ chain) =>
        IF input = <<>> THEN root = None
        ELSE root # None /\ LeafSeq(heap, root) = input

C1_Witness ==
    /\ phase = "done" /\ built = "new" /\ chain
    /\ Len(input) = MaxChain
    /\ root.height = 3

(* C3: after any sequence of insert, insert_after, descend*, ascend from   *)
(* the empty cursor, the tree returned by into_root() has every non-root   *)
(* internal node within MIN_CHILDREN..MAX_CHILDREN children, no node over  *)
(* MAX_CHILDREN, and every node exactly one higher than each child.        *)
C3_Shape ==
    (phase = "done" /\ built = "new" /\ root # None) =>
        ShapeOK(heap, root, TRUE)

C3_Witness ==
    /\ phase = "done" /\ built = "new" /\ ~chain /\ nops = MaxOps
    /\ root.height = 3

(* C4: the tree obtained from from_iter followed by into_root satisfies    *)
(* the shape invariants, the rightmost leaf-level node included.           *)
C4_FromIterShape ==
    (phase = "done" /\ built = "from_iter" /\ nops = 0 /\ root # None) =>
        ShapeOK(heap, root, TRUE)

(* C5: from_iter then into_root yields the same in-order leaf sequence as  *)
(* insert_after once per leaf on an empty cursor then into_root, both      *)
(* being exactly the input; both yield no tree for the empty input.        *)
C5_IterEqualsChain ==
    (phase = "done" /\ built = "from_iter" /\ nops = 0) =>
        LET one == into_root(insert_after_all(new, input))
        IN  /\ LeafSeq(heap, root) = LeafSeq(one.heap, one.cur_node)
            /\ LeafSeq(heap, root) = input
            /\ (input = <<>>) <=> (root = None)
            /\ (input = <<>>) <=> (one.cur_node = None)

C5_Witness ==
    /\ phase = "done" /\ built = "from_iter" /\ nops = 0
    /\ Len(input) = MaxIter
    /\ root.height = 3

(* C6: after into_root(), every internal node's cached Info equals gather  *)
(* folded over its children's Infos, and the root's Info equals gather     *)
(* folded over the Infos of all leaves.                                    *)
C6_Info ==
    (phase = "done" /\ root # None) =>
        /\ InfoOK(heap, root)
        /\ root.info = SumLeafInfo(LeafSeq(heap, root))

C6_Witness ==
    /\ phase = "done" /\ root # None /\ root.height >= 2
    /\ built = "new" /\ ~chain /\ nops = MaxOps

(* C2: on a non-empty cursor holding H, insert(x) yields the previous      *)
(* whole-tree leaf sequence with x immediately before the first leaf       *)
(* under H, and insert_after(x) yields it with x immediately after the     *)
(* last leaf under H; nothing else moves, is lost or duplicated.           *)
C2_InsertPlaces ==
    [][(phase = "cursor" /\ cur_node # None
        /\ last'.op \in {"insert", "insert_after"}) =>
         /\ phase' = "cursor"
         /\ Whole(heap', cur_node', steps') =
              IF last'.op = "insert"
              THEN LeftOf(heap, steps) \o <<last'.leaf>>
                   \o LeafSeq(heap, cur_node) \o RightOf(heap, steps)
              ELSE LeftOf(heap, steps) \o LeafSeq(heap, cur_node)
                   \o <<last'.leaf>> \o RightOf(heap, steps)]_vars

C2_Witness ==
    /\ phase = "cursor" /\ last.op = "insert" /\ last.splits = 2
    /\ last.depth = 1 /\ cur_node.height = 3

(* C7: while a second reference to a tree is held, everything a cursor     *)
(* created from the tree does leaves the tree seen through that reference  *)
(* unchanged (leaves, shapes, Infos); the arrays the cursor changes are    *)
(* its own (no other reference to them exists).                            *)
C7_SharedUntouched ==
    (other # None) =>
        /\ Deep(heap, other) = otherSnap
        /\ \A i \in DOMAIN steps : heap[steps[i].nodes].rc = 1

C7_Witness ==
    /\ other # None /\ phase = "cursor"
    /\ last.op = "insert_after" /\ last.splits >= 1 /\ last.depth >= 1
    /\ nops = MaxOps

(* C8: in every cursor state extra() is identity() when there are no       *)
(* ascent steps and otherwise identity() extended by the Info of every     *)
(* leaf that precedes the held node in the whole tree.                     *)
C8_ExtraIsPathInfo ==
    (phase = "cursor") =>
        extra(Cursor) =
            IF steps = <<>> THEN identity
            ELSE extend(identity, SumLeafInfo(LeftOf(heap, steps)))

(* C9: an operation that returns nothing leaves the cursor unchanged:      *)
(* descend* return nothing on an empty cursor, on a leaf, or when no child *)
(* is selected, ascend on an empty cursor or at the root, and then the     *)
(* held node, the steps and extra() are what they were.                    *)
C9_AbsentLeavesState ==
    [][/\ (last'.op \in {"descend", "descend_last", "descend_by", "ascend"}
           /\ ~last'.ok) =>
             /\ phase' = "cursor"
             /\ cur_node' = cur_node
             /\ Deep(heap', cur_node') = Deep(heap, cur_node)
             /\ steps' = steps
             /\ heap' = heap
             /\ extra([Cursor EXCEPT !.steps = steps']) = extra(Cursor)
       /\ (last'.op \in {"descend", "descend_last", "descend_by"}
           /\ (cur_node = None \/ cur_node.kind = "leaf")) => ~last'.ok
       /\ (last'.op = "ascend") =>
             (~last'.ok <=> (cur_node = None \/ steps = <<>>))]_vars

C9_Witness ==
    /\ phase = "cursor" /\ last.op = "descend_by" /\ ~last.ok
    /\ cur_node.kind = "int" /\ steps # <<>>

(* C10: after insert or insert_after the held node is the new leaf node,   *)
(* an ancestor of it, or the immediate right sibling of an ancestor of it. *)
C10_PositionAfterInsert ==
    (phase = "cursor" /\ last.op \in {"insert", "insert_after"}) =>
        \/ cur_node = from_leaf(last.leaf)
        \/ /\ cur_node.kind = "int"
           /\ \E i \in DOMAIN LeafSeq(heap, cur_node) :
                 LeafSeq(heap, cur_node)[i] = last.leaf
        \/ /\ steps # <<>>
           /\ LET top  == steps[Len(steps)]
                  arr  == heap[top.nodes].arr
              IN  /\ top.idx >= 1
                  /\ arr[top.idx].kind = "int"
                  /\ \E i \in DOMAIN LeafSeq(heap, arr[top.idx]) :
                        LeafSeq(heap, arr[top.idx])[i] = last.leaf

C10_Witness ==
    /\ phase = "cursor" /\ last.op = "insert" /\ last.splits = 1
    /\ steps # <<>>
    /\ \A i \in DOMAIN LeafSeq(heap, cur_node) :
          LeafSeq(heap, cur_node)[i] # last.leaf

(* remove and split_off: the bodies are unimplemented!(), which panics     *)
(* before the cursor is touched.                                           *)
remove(m, _idx) == [m EXCEPT !.panic = TRUE, !.ret = FALSE]

split_off(m) == [m EXCEPT !.panic = TRUE, !.ret = FALSE]

Remove(idx) ==
    /\ Budgeted
    /\ Becomes(remove(Cursor, idx), "remove", idx)

SplitOff ==
    /\ Budgeted
    /\ Becomes(split_off(Cursor), "split_off", 0)

NextEdit ==
    \/ Next
    \/ \E idx \in 0 .. MAX_CHILDREN - 1 : Remove(idx)
    \/ SplitOff

SpecEdit == Init /\ [][NextEdit]_vars

(* C13: remove(idx), called while the cursor holds an internal node with a *)
(* child at position idx, completes without aborting and returns a node.   *)
C13_RemoveCompletes ==
    (/\ last.op = "remove"
     /\ cur_node # None /\ cur_node.kind = "int"
     /\ last.leaf < Len(children(heap, cur_node)))
        => (phase = "cursor" /\ last.ok)

(* C14: split_off(), called on a non-empty cursor, completes without       *)
(* aborting and returns the right-hand tree.                               *)
C14_SplitOffCompletes ==
    (last.op = "split_off" /\ cur_node # None)
        => (phase = "cursor" /\ last.ok)

(* A tree one level higher than the step stack holds: t_1 = concat of two  *)
(* leaves, t_h = Node::concat(t_(h-1).clone(), t_(h-1)); the two children  *)
(* of a node share one cell.                                               *)
DeepHeight == CURSOR_MAX_HT + 1

RECURSIVE DeepHeap(_)
DeepHeap(n) ==
    IF n = 1 THEN concat(<<>>, from_leaf(1), from_leaf(2)).heap
    ELSE LET h == DeepHeap(n - 1)
             t == from_nodes(h, n - 1)
             shared == [h EXCEPT ![n - 1].rc = h[n - 1].rc + 1]
         IN  concat(shared, t, t).heap

InitDeep ==
    LET h == DeepHeap(DeepHeight)
        m == from_node(h, from_nodes(h, DeepHeight))
    IN  /\ heap = m.heap
        /\ cur_node = m.cur_node
        /\ steps = m.steps
        /\ phase = "cursor"
        /\ root = None
        /\ other = None
        /\ otherSnap = None
        /\ input = <<>>
        /\ built = "from_node"
        /\ chain = FALSE
        /\ nops = 0
        /\ path = PathIdle
        /\ last = [op |-> "from_node", ok |-> TRUE, splits |-> 0, leaf |-> 0,
                   depth |-> 0, dbg |-> FALSE]

DeepBudgeted ==
    /\ phase = "cursor"
    /\ nops < MaxDeepOps
    /\ nops' = nops + 1
    /\ UNCHANGED <<input, built, chain>>

DeepDescend(idx) ==
    /\ DeepBudgeted
    /\ Becomes(descend(Cursor, idx), "descend", idx)

DeepAscend ==
    /\ DeepBudgeted
    /\ Becomes(ascend(Cursor), "ascend", 0)

NextDeep ==
    \/ \E idx \in 0 .. 2 : DeepDescend(idx)
    \/ DeepAscend

SpecDeep == InitDeep /\ [][NextDeep]_vars

(* C20: the stack of ascent steps never holds more than 8 entries; a       *)
(* descent that selects a child at 8 steps panics, and one that selects a  *)
(* child at fewer than 8 steps pushes its step.                            *)
C20_StepStackBounded ==
    [][/\ Len(steps') <= CURSOR_MAX_HT
       /\ (/\ last'.op = "descend"
           /\ cur_node.kind = "int"
           /\ last'.leaf < Len(children(heap, cur_node)))
            => IF Len(steps) = CURSOR_MAX_HT
               THEN phase' = "panic"
               ELSE phase' = "cursor" /\ Len(steps') = Len(steps) + 1]_vars

C20_Witness ==
    /\ phase = "panic" /\ last.op = "descend" /\ last.depth = CURSOR_MAX_HT
    /\ Len(steps) = CURSOR_MAX_HT

(* The PathInfo instances on their own: an accumulator c0 and an info x of *)
(* the unit or the usize instance, in a build with or without overflow     *)
(* checks; c0.extend(x) and then .extend_inv(x) are evaluated.             *)
InitPath ==
    /\ heap = new.heap
    /\ cur_node = new.cur_node
    /\ steps = new.steps
    /\ phase = "cursor"
    /\ root = None
    /\ other = None
    /\ otherSnap = None
    /\ input = <<>>
    /\ built = "new"
    /\ chain = FALSE
    /\ nops = 0
    /\ last = [op |-> "new", ok |-> TRUE, splits |-> 0, leaf |-> 0,
               depth |-> 0, dbg |-> FALSE]
    /\ \E inst \in {"unit", "usize"} : \E checked \in BOOLEAN :
         \E c0 \in 0 .. UsizeMax : \E x \in 0 .. UsizeMax :
            /\ inst = "unit" => (c0 = 0 /\ x = 0)
            /\ path = [inst |-> inst, checked |-> checked, c0 |-> c0,
                       x |-> x, val |-> c0, st |-> "start"]

PathExtend ==
    /\ path.st = "start"
    /\ path' = IF path.inst = "unit"
               THEN [path EXCEPT !.val = unit_extend(path.val, path.x),
                                 !.st = "extended"]
               ELSE IF path.checked /\ add_overflows(path.val, path.x)
               THEN [path EXCEPT !.st = "panic"]
               ELSE [path EXCEPT !.val = extend(path.val, path.x),
                                 !.st = "extended"]
    /\ UNCHANGED <<heap, cur_node, steps, phase, root, other, otherSnap,
                   input, built, chain, nops, last>>

PathExtendInv ==
    /\ path.st = "extended"
    /\ path' = IF path.inst = "unit"
               THEN [path EXCEPT !.val = unit_extend_inv(path.val, path.x),
                                 !.st = "inverted"]
               ELSE IF path.checked /\ sub_overflows(path.val, path.x)
               THEN [path EXCEPT !.st = "panic"]
               ELSE [path EXCEPT !.val = extend_inv(path.val, path.x),
                                 !.st = "inverted"]
    /\ UNCHANGED <<heap, cur_node, steps, phase, root, other, otherSnap,
                   input, built, chain, nops, last>>

NextPath == PathExtend \/ PathExtendInv

SpecPath == InitPath /\ [][NextPath]_vars

(* C12: for the unit and the usize instance, for every accumulator c0 and  *)
(* every info x in range, c0.extend(x).extend_inv(x) evaluates to c0.      *)
C12_ExtendInvInverts ==
    /\ path.st # "panic"
    /\ path.st = "inverted" => path.val = path.c0

(* Without overflow checks, and for pairs whose sum is in range, the law   *)
(* holds.                                                                  *)
PathLawInRange ==
    (~path.checked \/ ~add_overflows(path.c0, path.x)) => C12_ExtendInvInverts

(* C11: reset() ends with no ascent steps, holding the root of the whole    *)
(* tree with every leaf in order; into_root() returns that tree, and       *)
(* returns nothing iff the cursor was empty.                               *)
C11_ResetReachesRoot ==
    [][/\ (last'.op = "reset") =>
             /\ phase' = "cursor"
             /\ steps' = <<>>
             /\ (cur_node' = None) <=> (cur_node = None)
             /\ LeafSeq(heap', cur_node') = Whole(heap, cur_node, steps)
       /\ (last'.op = "into_root") =>
             /\ phase' = "done"
             /\ (root' = None) <=> (cur_node = None)
             /\ LeafSeq(heap', root') = Whole(heap, cur_node, steps)]_vars

C11_Witness ==
    /\ phase = "done" /\ last.op = "into_root" /\ last.depth = 2
    /\ root # None /\ built = "new" /\ ~chain

(* C15: a successful descent from n steps holding P gives n + 1 steps, and *)
(* an ascend right after it gives n steps holding a node with the same     *)
(* ordered children, height and Info as P, with extra() as before.         *)
C15_AscendInvertsDescend ==
    [][(last'.op \in {"descend", "descend_last", "descend_by"} /\ last'.ok) =>
         /\ phase' = "cursor"
         /\ Len(steps') = Len(steps) + 1
         /\ LET a == ascend(Machine(heap', cur_node', steps'))
            IN  /\ a.ret
                /\ Len(a.steps) = Len(steps)
                /\ a.steps = steps
                /\ Deep(a.heap, a.cur_node) = Deep(heap, cur_node)
                /\ extra(a) = extra(Cursor)]_vars

C15_Witness ==
    /\ phase = "cursor" /\ last.op = "descend_by" /\ last.ok
    /\ Len(steps) = 2 /\ steps[2].idx = 0 /\ other # None

(* Trees as values, to state what an insertion with splits must produce.   *)
DeepNode(kids) ==
    [kind |-> "int", val |-> 0, info |-> SumInfo(kids),
     height |-> kids[1].height + 1, kids |-> kids]

(* The nodes that take the place of d once x is placed next to the node    *)
(* reached from d by the child indices pth: more than MAX_CHILDREN         *)
(* children are divided into the first MIN_CHILDREN + 1 and the rest.      *)
RECURSIVE Grown(_, _, _, _)
Grown(d, pth, x, after) ==
    IF Len(pth) = 0 THEN (IF after THEN <<d, x>> ELSE <<x, d>>)
    ELSE LET i   == pth[1]
             sub == Grown(d.kids[i + 1], Drop(pth, 1), x, after)
             all == Take(d.kids, i) \o sub \o Drop(d.kids, i + 1)
         IN  IF Len(all) <= MAX_CHILDREN THEN <<DeepNode(all)>>
             ELSE <<DeepNode(Take(all, MIN_CHILDREN + 1)),
                    DeepNode(Drop(all, MIN_CHILDREN + 1))>>

GrownRoot(d, pth, x, after) ==
    LET g == Grown(d, pth, x, after)
    IN  IF Len(g) = 1 THEN g[1] ELSE DeepNode(g)

(* The nodes of height ht of a tree value, left to right.                  *)
RECURSIVE NodesAt(_, _)
RECURSIVE NodesAtArr(_, _)
NodesAt(d, ht) ==
    IF d.height = ht THEN <<d>>
    ELSE IF d.height < ht THEN <<>>
    ELSE NodesAtArr(d.kids, ht)
NodesAtArr(kids, ht) ==
    IF Len(kids) = 0 THEN <<>>
    ELSE NodesAt(kids[1], ht) \o NodesAtArr(Drop(kids, 1), ht)

(* Number of consecutive levels, from the held node's parent upward, whose *)
(* array is full once the held node is back in it.                         *)
RECURSIVE FullLevels(_, _)
FullLevels(h, st) ==
    IF Len(st) = 0 THEN 0
    ELSE IF Len(h[st[Len(st)].nodes].arr) + 1 = MAX_CHILDREN
    THEN 1 + FullLevels(h, Take(st, Len(st) - 1))
    ELSE 0

(* C16: when the parent array with the held node back in it already holds *)
(* MAX_CHILDREN nodes, the insertion splits that level exactly once: the   *)
(* left node keeps the first MIN_CHILDREN + 1 of the MAX_CHILDREN + 1      *)
(* nodes in their intended order, a new sibling of the same height gets    *)
(* the other MAX_CHILDREN - MIN_CHILDREN, and the sibling is inserted      *)
(* right after the left node one level up (splitting again there if that   *)
(* level is full, growing a new root above the root).                      *)
C16_SplitAtFullLevel ==
    [][(/\ last'.op \in {"insert", "insert_after"}
        /\ phase = "cursor" /\ cur_node # None) =>
         \A after \in {last'.op = "insert_after"} :
         \A m0 \in {descend_all(Cursor, after)} :
         \A k \in {FullLevels(m0.heap, m0.steps)} :
           (k >= 1) =>
             \A pre \in {reset(m0)} :
             \A post \in {reset(Machine(heap', cur_node', steps'))} :
             \A preD \in {Deep(pre.heap, pre.cur_node)} :
             \A postD \in {Deep(post.heap, post.cur_node)} :
             \A x \in {Deep(heap', from_leaf(last'.leaf))} :
             \A top \in {m0.steps[Len(m0.steps)]} :
             \A P \in {InsertAt([i \in DOMAIN m0.heap[top.nodes].arr |->
                                   Deep(m0.heap, m0.heap[top.nodes].arr[i])],
                                top.idx, Deep(m0.heap, m0.cur_node))} :
             \A I \in {InsertAt(P, IF after THEN top.idx + 1 ELSE top.idx,
                                x)} :
             \A A \in {NodesAt(preD, 1)} :
             \A B \in {NodesAt(postD, 1)} :
               /\ phase' = "cursor"
               /\ last'.splits = k
               /\ Len(I) = MAX_CHILDREN + 1
               /\ Len(B) = Len(A) + 1
               /\ \E j \in 1 .. Len(A) :
                     /\ A[j].kids = P
                     /\ Take(B, j - 1) = Take(A, j - 1)
                     /\ Drop(B, j + 1) = Drop(A, j)
                     /\ B[j].kids = Take(I, MIN_CHILDREN + 1)
                     /\ B[j + 1].kids = Drop(I, MIN_CHILDREN + 1)
                     /\ Len(B[j + 1].kids) = MAX_CHILDREN - MIN_CHILDREN
                     /\ B[j + 1].height = B[j].height
               /\ postD = GrownRoot(preD,
                                    [i \in DOMAIN m0.steps |->
                                       m0.steps[i].idx],
                                    x, after)]_vars

(* An insertion after the last child of a full parent: the new leaf is the *)
(* last child of the new sibling, which the cursor holds.                  *)
C16_Witness ==
    /\ phase = "cursor" /\ last.op = "insert_after" /\ last.splits = 1
    /\ steps # <<>> /\ cur_node.height = 1
    /\ Len(children(heap, cur_node)) = MAX_CHILDREN - MIN_CHILDREN
    /\ children(heap, cur_node)[MAX_CHILDREN - MIN_CHILDREN].val = last.leaf

(* C17: after every completed operation, a non-empty stack of ascent steps *)
(* implies a held node; the held node is absent only in the empty cursor.  *)
C17_WellFormed ==
    (phase = "cursor") => (steps # <<>> => cur_node # None)

C17_Witness ==
    /\ phase = "cursor" /\ steps # <<>> /\ cur_node.kind = "leaf"
    /\ last.op = "descend" /\ ~last.ok

(* C18: every ascent step's sibling array holds at most MAX_CHILDREN - 1   *)
(* nodes and its index is at most the array's length, so reinserting the   *)
(* held node pushes nothing out of the array.                              *)
C18_StepsHaveRoom ==
    (phase = "cursor") =>
        /\ \A i \in DOMAIN steps :
              /\ Len(heap[steps[i].nodes].arr) <= MAX_CHILDREN - 1
              /\ steps[i].idx <= Len(heap[steps[i].nodes].arr)
        /\ ~last.dbg

C18_Witness ==
    /\ phase = "cursor" /\ Len(steps) = 2
    /\ Len(heap[steps[2].nodes].arr) = MAX_CHILDREN - 1
    /\ steps[2].idx = MAX_CHILDREN - 1
    /\ last.op = "insert_after"

(* C19: insert, insert_after and from_iter never call insert_raw with a    *)
(* node whose height differs from the held node's: the height assertion    *)
(* never fires, also in the calls that propagate a split upward.           *)
C19_HeightsAgree ==
    (last.op \in {"insert", "insert_after", "from_iter"}) => phase # "panic"

C19_Witness ==
    /\ phase = "cursor" /\ last.op = "from_iter" /\ Len(input) = MaxIter
    /\ Len(steps) = 2 /\ cur_node.height = 1

====
